---- MODULE Spec2Model ----
(***************************************************************************)
(* Model of model/c/c_mv_exp.pyx: the recursive log-likelihood of a        *)
(* multivariate Hawkes process with exponential decay (mv_exp_ll), the     *)
(* offspring sampler (_get_mv_offspring) and the branching sampler         *)
(* (mv_exp_sample_branching).                                              *)
(*                                                                         *)
(* Arithmetic.  Times are integers.  The decay rate is theta = n * ln 2    *)
(* for an integer n >= 1, so exp(-theta * x) = 2^(-n*x) is a dyadic        *)
(* rational; such values are held exactly as integers in units of 1/Scale. *)
(* An intensity mu + theta*dot is the pair (bg, ex) standing for           *)
(* bg + ex * ln2 / Scale.  A sum of logarithms is held as the sequence of  *)
(* its arguments, one per event.                                           *)
(***************************************************************************)
EXTENDS Integers, Sequences, FiniteSets, TLC

\* ---------------------------------------------------------------- bounds
MaxK == 2        \* processes: len(mu) ranges over 1..MaxK
MaxN == 3        \* events in a realization given to mv_exp_ll
MaxTime == 2     \* mv_exp_ll: event times and T range over 0..MaxTime
MaxHorizon == 2  \* mv_exp_sample_branching: T ranges over 1..MaxHorizon
MaxTheta == 1    \* theta = n * ln 2, n in 1..MaxTheta
MaxA == 1        \* entries of A range over 0..MaxA
MaxMu == 1       \* entries of mu range over 0..MaxMu
MaxEvents == 2   \* events drawn in one run of the sampler

\* ------------------------------------------------------------ arithmetic
RECURSIVE Pow2(_)
Pow2(n) == IF n <= 0 THEN 1 ELSE 2 * Pow2(n - 1)

\* one unit of the fixed-point representation: phi[k] is decayed by at most
\* exp(-theta * MaxTime) at each of at most MaxN - 1 events
Scale == Pow2(MaxTheta * MaxTime * (MaxN - 1))

\* np.inf, the initial value of d[k]
Inf == 1000000

\* inf + x = inf
AddD(x, dt) == IF x = Inf THEN Inf ELSE x + dt

\* exp(-theta * x), in units of 1/Scale; exp(-inf) = 0
ExpNeg(theta, x) ==
    IF x = Inf THEN 0
    ELSE IF x >= 0 THEN Scale \div Pow2(theta * x)
    ELSE Scale * Pow2(theta * (0 - x))

\* the product a * b in units of 1/Scale, for a = exp(-theta * x) with x >= 0,
\* that is a = Scale / 2^e or a = 0
Mul(a, b) == IF a = 0 THEN 0 ELSE b \div (Scale \div a)

RECURSIVE SumTo(_, _)
\* f[0] + ... + f[n-1]
SumTo(f, n) == IF n <= 0 THEN 0 ELSE f[n - 1] + SumTo(f, n - 1)

\* ------------------------------------------------------------- mv_exp_ll
VARIABLES
    t, c, mu, A, theta, T,     \* the arguments of mv_exp_ll
    K,                         \* the local K
    phi, d, ed, F,             \* the per-process arrays
    lJ,                        \* the running sum of logs
    i,                         \* index of the next event to process
    oob,                       \* a store outside phi, d, ed, F has happened
    fn,                        \* the function called: "ll" or "sample"
    pc,                        \* position in the function
    result,                    \* what the caller receives
    P, C,                      \* mv_exp_sample_branching: accumulated output
    curr_P, curr_C,            \* the current generation
    os_P, os_C,                \* offspring arrays of the current generation
    k0,                        \* loop index k of the immigrant loop
    gens,                      \* history: the generations as they were drawn
    calls                      \* history: calls of _get_mv_offspring so far

llvars == <<t, c, phi, d, ed, F, lJ, oob>>
smvars == <<P, C, curr_P, curr_C, os_P, os_C, k0, gens, calls>>
vars == <<t, c, mu, A, theta, T, K, phi, d, ed, F, lJ, i, oob, fn, pc, result,
          P, C, curr_P, curr_C, os_P, os_C, k0, gens, calls>>

N == Cardinality(DOMAIN t)
Kmu == Cardinality(DOMAIN mu)

\* np.unique(c).shape[0]
NumUnique(cc) == Cardinality({cc[j] : j \in DOMAIN cc})

\* index pairs of a (k, k) matrix
Pairs2(k) == (0..(k - 1)) \X (0..(k - 1))

Sorted(tt) == \A j \in DOMAIN tt : j + 1 \in DOMAIN tt => tt[j] <= tt[j + 1]

\* a sum of logarithms: fin = FALSE stands for -inf, otherwise logs lists the
\* arguments of the logarithms summed
Zero == [fin |-> TRUE, logs |-> <<>>]
NegInf == [fin |-> FALSE, logs |-> <<>>]

\* log(x) of math.h: -inf at 0 (no intensity of the model is negative)
IsZero(x) == x.bg = 0 /\ x.ex = 0
Log(x) == IF IsZero(x) THEN NegInf ELSE [fin |-> TRUE, logs |-> <<x>>]

\* AddLog with the running sum overwritten instead of added to
AddLog_Overwrite(l, m) == m

\* l + m for two such sums; -inf + x = -inf
AddLog(l, m) == IF l.fin /\ m.fin THEN [fin |-> TRUE, logs |-> l.logs \o m.logs] ELSE NegInf

\* Comp with the sign of the time difference reversed
Comp_Reversed(ti) == Scale - ExpNeg(theta, ti - T)

\* 1 - exp(-theta * (T - ti))
Comp(ti) == Scale - ExpNeg(theta, T - ti)

\* the vectors mu and matrices A given to mv_exp_ll for k processes
AllMu(k) == [0..(k - 1) -> 0..MaxMu]
AllA(k) == [Pairs2(k) -> 0..MaxA]

\* a background rate of 1 for every process, and every influence 1
UnitMu(k) == {[j \in 0..(k - 1) |-> 1]}
OnesA(k) == {[p \in Pairs2(k) |-> 1]}

\* no influence at all
ZeroA(k) == {[p \in Pairs2(k) |-> 0]}

\* entry of mv_exp_ll with len(mu) in Ks, mu in MuOf[k] and A in AOf[k]
InitWith(Ks, MuOf, AOf) ==
    /\ \E n \in 1..MaxN, k \in Ks :
          /\ t \in {tt \in [0..(n - 1) -> 0..MaxTime] : Sorted(tt)}
          /\ c \in [0..(n - 1) -> 0..(k - 1)]
          /\ mu \in MuOf[k]
          /\ A \in AOf[k]
    /\ theta \in 1..MaxTheta
    /\ T \in 0..MaxTime
    /\ K = 0
    /\ phi = <<>> /\ d = <<>> /\ ed = <<>> /\ F = <<>>
    /\ lJ = Zero
    /\ i = 0
    /\ oob = FALSE
    /\ fn = "ll"
    /\ pc = "entry"
    /\ result = [kind |-> "none"]
    /\ P = <<>> /\ C = <<>> /\ curr_P = <<>> /\ curr_C = <<>>
    /\ os_P = <<>> /\ os_C = <<>>
    /\ k0 = 0 /\ gens = <<>> /\ calls = 0

\* any call of mv_exp_ll
InitLL ==
    InitWith(1..MaxK, [k \in 1..MaxK |-> AllMu(k)], [k \in 1..MaxK |-> AllA(k)])

\* the calls with one process and A = [[0]]
InitPoisson ==
    InitWith({1}, [k \in {1} |-> AllMu(k)], [k \in {1} |-> ZeroA(k)])

\* the calls with mu = 1 and A = 1 throughout: F is computed from t, c, theta
\* and T alone
InitComp ==
    InitWith(1..MaxK, [k \in 1..MaxK |-> UnitMu(k)], [k \in 1..MaxK |-> OnesA(k)])

\* lines 39-50: the cdef block
Alloc ==
    /\ fn = "ll" /\ pc = "entry"
    /\ K' = NumUnique(c)
    /\ phi' = [k \in 0..(NumUnique(c) - 1) |-> 0]
    /\ d' = [k \in 0..(NumUnique(c) - 1) |-> Inf]
    /\ ed' = [k \in 0..(NumUnique(c) - 1) |-> 0]
    /\ F' = [k \in 0..(NumUnique(c) - 1) |-> 0]
    /\ lJ' = Zero
    /\ pc' = "first"
    /\ UNCHANGED <<t, c, mu, A, theta, T, i, oob, fn, result, smvars>>

\* a[k] = v with bounds checking off: a store at an index past the end
\* leaves the array as it is
Store(a, k, v) == IF k \in DOMAIN a THEN [a EXCEPT ![k] = v] ELSE a
Load(a, k) == IF k \in DOMAIN a THEN a[k] ELSE 0

\* lines 53-56: the first event
First ==
    /\ fn = "ll" /\ pc = "first"
    /\ F' = Store(F, c[0], Load(F, c[0]) + Comp(t[0]))
    /\ lJ' = Log([bg |-> mu[c[0]], ex |-> 0])
    /\ d' = Store(d, c[0], 0)
    /\ oob' = (oob \/ c[0] \notin DOMAIN F)
    /\ i' = 1
    /\ pc' = "loop"
    /\ UNCHANGED <<t, c, mu, A, theta, T, K, phi, ed, fn, result, smvars>>

\* lines 63-67: d, ed, phi after the inner loop over k
DecayD(dt) == [k \in DOMAIN d |-> AddD(d[k], dt)]
DecayEd(dt) == [k \in DOMAIN d |-> ExpNeg(theta, DecayD(dt)[k])]
DecayPhi(dt) == [k \in DOMAIN d |-> Mul(DecayEd(dt)[k], Scale + phi[k])]
Dot(ci, dt) == SumTo([k \in DOMAIN d |-> A[<<k, ci>>] * DecayPhi(dt)[k]], K)

\* lines 58-74: one iteration of the loop over the events
Step ==
    /\ fn = "ll" /\ pc = "loop"
    /\ i < N
    /\ LET ci == c[i]
           ti == t[i]
           dt == ti - t[i - 1]
       IN  /\ ed' = DecayEd(dt)
           /\ phi' = DecayPhi(dt)
           /\ F' = Store(F, ci, Load(F, ci) + Comp(ti))
           /\ lJ' = AddLog(lJ, Log([bg |-> mu[ci], ex |-> theta * Dot(ci, dt)]))
           /\ d' = Store(DecayD(dt), ci, 0)
           /\ oob' = (oob \/ ci \notin DOMAIN F)
    /\ i' = i + 1
    /\ UNCHANGED <<t, c, mu, A, theta, T, K, fn, pc, result, smvars>>

\* a store past the end of a heap array may also end the process
Crash ==
    /\ fn = "ll" /\ pc = "loop"
    /\ oob
    /\ pc' = "done"
    /\ result' = [kind |-> "crash"]
    /\ UNCHANGED <<t, c, mu, A, theta, T, K, phi, d, ed, F, lJ, i, oob, fn, smvars>>

\* np.sum(mu * T), in units of 1/Scale
SumMuT == Scale * SumTo([k \in DOMAIN mu |-> mu[k] * T], Kmu)

\* np.sum(A.T.dot(F)): (A.T.dot(F))[k] = sum_j A[j, k] * F[j]
SumATF ==
    SumTo([k \in DOMAIN mu |-> SumTo([j \in DOMAIN mu |-> A[<<j, k>>] * F[j]], Kmu)], Kmu)

\* line 76: A.T.dot(F) needs F to have len(mu) entries
Return ==
    /\ fn = "ll" /\ pc = "loop"
    /\ i >= N
    /\ pc' = "done"
    /\ result' = IF K # Kmu THEN [kind |-> "ValueError"]
                 ELSE IF ~lJ.fin THEN [kind |-> "value", fin |-> FALSE]
                 ELSE [kind |-> "value", fin |-> TRUE, logs |-> lJ.logs,
                       sub |-> SumMuT + SumATF]
    /\ UNCHANGED <<t, c, mu, A, theta, T, K, phi, d, ed, F, lJ, i, oob, fn, smvars>>

\* ------------------------------------------------------ _get_mv_offspring
\* Poisson with a zero mean treated like a positive one
Poisson_ZeroMean(lam) == 0..MaxEvents

\* the values np.random.poisson(lam) can return, up to the size of a run
Poisson(lam) == IF lam = 0 THEN {0} ELSE 0..MaxEvents

\* the values of -log(uu()) taken here, in units of ln 2: uu() = 2^(-e) with
\* e a multiple of theta / ln 2 (every delay from T on is past the horizon),
\* and uu() = 0, whose logarithm is -inf
NegLogU == {m * theta : m \in 0..T} \cup {Inf}

\* x / theta for x in units of ln 2; inf / theta = inf
DivTheta(x) == IF x = Inf THEN Inf ELSE x \div theta

RECURSIVE Marks(_, _)
\* lines 96-101, cos: cnt[k] copies of k for k = 0, 1, ..., n - 1
Marks(cnt, n) ==
    IF n <= 0 THEN <<>>
    ELSE Marks(cnt, n - 1) \o [j \in 1..cnt[n - 1] |-> n - 1]

\* lines 96-101, tos: tt = -log(uu()) / theta + t for each draw
Times(tp, us) == [j \in 1..Len(us) |-> AddD(DivTheta(us[j]), tp)]

RECURSIVE SelectIdx(_, _, _)
\* a[mask] of numpy: the entries of a at the first n positions where tres < T
SelectIdx(a, tres, n) ==
    IF n = 0 THEN <<>>
    ELSE IF tres[n] < T THEN Append(SelectIdx(a, tres, n - 1), a[n])
    ELSE SelectIdx(a, tres, n - 1)

\* line 109: tres[tres < T], cres[tres < T]
GetMvOffspring(tp, cnt, us) ==
    LET tres == Times(tp, us)
        cres == Marks(cnt, Kmu)
    IN  [tres |-> SelectIdx(tres, tres, Len(tres)), cres |-> SelectIdx(cres, tres, Len(tres))]

\* the Poisson draws of one call for influence row A[cp, :]
Counts(cp, room) ==
    {cnt \in [0..(Kmu - 1) -> 0..room] :
        /\ \A k \in 0..(Kmu - 1) : cnt[k] \in Poisson(A[<<cp, k>>])
        /\ SumTo(cnt, Kmu) <= room}

\* ------------------------------------------------ mv_exp_sample_branching
RECURSIVE Flatten(_)
\* all events of a list of generations, in the order they were drawn
Flatten(gs) == IF gs = <<>> THEN <<>> ELSE Head(gs) \o Flatten(Tail(gs))

\* number of events drawn so far
Drawn == Len(Flatten(gens))

RECURSIVE Concat(_)
\* np.concatenate of a list of arrays
Concat(ss) == IF ss = <<>> THEN <<>> ELSE Head(ss) \o Concat(Tail(ss))

\* np.random.poisson(lam) can return any count, zero included, when lam > 0,
\* and returns 0 when lam = 0: the runs for a vector or a row with some zero
\* entries are among the runs for the one with none, and the size of a
\* positive entry does not matter.  The sampler is entered with a background
\* rate of 0 or of 1 for all processes, and with a matrix A whose row j is 1
\* throughout for the processes j of a set S and 0 throughout for the others.
Rates(k) == {[j \in 0..(k - 1) |-> IF b THEN 1 ELSE 0] : b \in BOOLEAN}
Matrices(k) == {[p \in Pairs2(k) |-> IF p[1] \in S THEN 1 ELSE 0] : S \in SUBSET (0..(k - 1))}

InitSample ==
    /\ \E k \in 1..MaxK :
          /\ mu \in Rates(k)
          /\ A \in Matrices(k)
          /\ K = k
    /\ theta \in 1..MaxTheta
    /\ T \in 1..MaxHorizon
    /\ t = <<>> /\ c = <<>>
    /\ phi = <<>> /\ d = <<>> /\ ed = <<>> /\ F = <<>>
    /\ lJ = Zero
    /\ i = 0
    /\ oob = FALSE
    /\ fn = "sample"
    /\ pc = "immigrants"
    /\ result = [kind |-> "none"]
    /\ P = <<>> /\ C = <<>> /\ curr_P = <<>> /\ curr_C = <<>>
    /\ os_P = <<>> /\ os_C = <<>>
    /\ k0 = 0 /\ gens = <<<<>>>> /\ calls = 0

\* lines 129-136: one iteration of the immigrant loop
Immigrants ==
    /\ fn = "sample" /\ pc = "immigrants"
    /\ k0 < K
    /\ \E Nk0 \in Poisson(mu[k0] * T) :
          /\ Drawn + Nk0 <= MaxEvents
          /\ \E Pk0 \in [1..Nk0 -> 0..(T - 1)] :
                LET Ck0 == [j \in 1..Nk0 |-> k0]
                IN  /\ curr_P' = curr_P \o Pk0
                    /\ curr_C' = curr_C \o Ck0
                    /\ gens' = <<gens[1] \o [j \in 1..Nk0 |-> <<Pk0[j], k0>>]>>
    /\ k0' = k0 + 1
    /\ pc' = IF k0 + 1 < K THEN "immigrants" ELSE "while"
    /\ UNCHANGED <<mu, A, theta, T, K, i, fn, result, P, C, os_P, os_C, calls, llvars>>

\* LoopTest that stops at a generation of one event
LoopTest_OffByOne == Len(curr_P) > 1

\* Accumulate that keeps the current generation only
Accumulate_Overwrite(acc, cur) == cur

\* lines 139-140: np.concatenate([P, curr_P])
Accumulate(acc, cur) == acc \o cur

\* line 138: curr_P.shape[0] > 0
LoopTest == Len(curr_P) > 0

\* lines 138-143: the loop test succeeds
WhileBody ==
    /\ fn = "sample" /\ pc = "while"
    /\ LoopTest
    /\ P' = Accumulate(P, curr_P)
    /\ C' = Accumulate(C, curr_C)
    /\ os_P' = <<>>
    /\ os_C' = <<>>
    /\ i' = 0
    /\ gens' = Append(gens, <<>>)
    /\ pc' = "for"
    /\ UNCHANGED <<mu, A, theta, T, K, fn, result, curr_P, curr_C, k0, calls, llvars>>

\* lines 145-149: one iteration of the loop over the current generation
Offspring ==
    /\ fn = "sample" /\ pc = "for"
    /\ i < Len(curr_P)
    /\ LET ci == curr_C[i + 1]
       IN  \E cnt \in Counts(ci, MaxEvents - Drawn) :
             \E us \in [1..SumTo(cnt, Kmu) -> NegLogU] :
                LET r == GetMvOffspring(curr_P[i + 1], cnt, us)
                IN  /\ os_P' = Append(os_P, r.tres)
                    /\ os_C' = Append(os_C, r.cres)
                    /\ gens' = [gens EXCEPT ![Len(gens)] =
                                   @ \o [j \in 1..Len(r.tres) |-> <<r.tres[j], r.cres[j]>>]]
    /\ i' = i + 1
    /\ calls' = calls + 1
    /\ UNCHANGED <<mu, A, theta, T, K, fn, pc, result, P, C, curr_P, curr_C, k0, llvars>>

\* lines 151-152: the offspring become the current generation
NextGeneration ==
    /\ fn = "sample" /\ pc = "for"
    /\ i >= Len(curr_P)
    /\ curr_P' = Concat(os_P)
    /\ curr_C' = Concat(os_C)
    /\ pc' = "while"
    /\ UNCHANGED <<mu, A, theta, T, K, i, fn, result, P, C, os_P, os_C, k0, gens, calls, llvars>>

\* position of entry j of a in the stable ascending order
Rank(a, j) == Cardinality({m \in 1..Len(a) : a[m] < a[j] \/ (a[m] = a[j] /\ m < j)}) + 1

\* ArgSort that leaves the order as it is
ArgSort_Unsorted(a) == [r \in 1..Len(a) |-> r]

\* np.argsort(a, kind="mergesort")
ArgSort(a) == [r \in 1..Len(a) |-> CHOOSE j \in 1..Len(a) : Rank(a, j) = r]

\* a[six]
Take(a, six) == [r \in 1..Len(six) |-> a[six[r]]]

\* lines 138, 154-156: the loop test fails
SortReturn ==
    /\ fn = "sample" /\ pc = "while"
    /\ ~LoopTest
    /\ LET six == ArgSort(P)
       IN  result' = [kind |-> "value", P |-> Take(P, six), C |-> Take(C, six)]
    /\ pc' = "done"
    /\ UNCHANGED <<mu, A, theta, T, K, i, fn, P, C, curr_P, curr_C, os_P, os_C, k0,
                   gens, calls, llvars>>

NextLL == Alloc \/ First \/ Step \/ Crash \/ Return

NextPoisson == Alloc \/ First \/ Step \/ Return

NextSample == Immigrants \/ WhileBody \/ Offspring \/ NextGeneration \/ SortReturn

\* one call of mv_exp_ll
SpecLL == InitLL /\ [][NextLL]_vars

\* one call of mv_exp_ll with one process and no influence
SpecPoisson == InitPoisson /\ [][NextPoisson]_vars

\* one call of mv_exp_ll with unit rates
SpecComp == InitComp /\ [][NextLL]_vars

\* one call of mv_exp_sample_branching
SpecSample == InitSample /\ [][NextSample]_vars

\* the call runs on without interruption
FairSample == SpecSample /\ WF_vars(NextSample)

\* ---------------------------------------------------------------- claims
Done(f) == fn = f /\ pc = "done"
Returned(f) == Done(f) /\ result.kind = "value"
LastTime == t[N - 1]

\* the pairwise-sum intensity at event n: mu[cn] + theta * sum over j < n of
\* A[cj, cn] * exp(-theta * (tn - tj))
DirectLda(n) ==
    [bg |-> mu[c[n]],
     ex |-> theta * SumTo([j \in 0..(n - 1) |-> A[<<c[j], c[n]>>] * ExpNeg(theta, t[n] - t[j])], n)]

RECURSIVE DirectLogs(_)
\* the sum of log(DirectLda(j)) over the first n events
DirectLogs(n) == IF n = 0 THEN Zero ELSE AddLog(DirectLogs(n - 1), Log(DirectLda(n - 1)))

\* the integrated intensity: sum(mu) * T plus, for every event j and every
\* process k, A[cj, k] * (1 - exp(-theta * (T - tj)))
DirectSub ==
    SumMuT + SumTo([j \in 0..(N - 1) |->
                       SumTo([k \in 0..(Kmu - 1) |-> A[<<c[j], k>>] * Comp(t[j])], Kmu)], N)

\* C1: whenever mv_exp_ll returns a value for a sorted realization with
\* T > 0 and T >= the last event time, that value is the direct pairwise-sum
\* log-likelihood: the same intensity at every event, the same compensator.
C1_RecursiveEqualsDirect ==
    (Returned("ll") /\ T > 0 /\ T >= LastTime) =>
        /\ result.fin = DirectLogs(N).fin
        /\ result.fin => /\ result.logs = DirectLogs(N).logs
                         /\ result.sub = DirectSub

\* C2: with one process and A = [[0]], mv_exp_ll returns N * log(mu) - mu * T
\* for every sorted sequence of N >= 1 times and every T >= the last time:
\* N logarithms of mu[0] and nothing but mu[0] * T subtracted (-inf when
\* mu[0] = 0, as N * log(0) is).
C2_PoissonReduction ==
    (Done("ll") /\ Kmu = 1 /\ A[<<0, 0>>] = 0 /\ T >= LastTime) =>
        /\ result.kind = "value"
        /\ result.fin = (mu[0] > 0)
        /\ result.fin => /\ result.logs = [j \in 1..N |-> [bg |-> mu[0], ex |-> 0]]
                         /\ result.sub = Scale * mu[0] * T

C2_Witness ==
    /\ Done("ll") /\ Kmu = 1 /\ A[<<0, 0>>] = 0 /\ T >= LastTime
    /\ N = MaxN /\ t[N - 1] > t[0] /\ mu[0] > 0 /\ T > 0
    /\ result.kind = "value" /\ result.fin

\* C3: the times mv_exp_sample_branching returns are non-decreasing and each
\* lies in [0, T).
C3_SortedInWindow ==
    Returned("sample") =>
        /\ \A j \in 1..Len(result.P) : 0 <= result.P[j] /\ result.P[j] < T
        /\ \A j \in 1..(Len(result.P) - 1) : result.P[j] <= result.P[j + 1]

\* a run whose accumulated times were out of order
C3_Witness ==
    /\ Returned("sample")
    /\ \E j \in 1..(Len(P) - 1) : P[j] > P[j + 1]
    /\ result.P # P /\ Len(result.P) = Len(P)

\* C4: mv_exp_ll fails with InvalidInput, returning nothing, when T <= 0 or
\* T is less than the last event time.
C4_InvalidInputRejected ==
    (Done("ll") /\ (T <= 0 \/ T < LastTime)) => result.kind = "InvalidInput"

\* C5: mv_exp_ll never returns -inf (or NaN) as the log-likelihood; an
\* intensity <= 0 at some event makes the call signal a DomainError.
C5_DomainErrorSignalled ==
    Done("ll") => /\ (result.kind = "value" => result.fin)
                  /\ (~lJ.fin => result.kind = "DomainError")

\* C6: while mv_exp_ll runs with T >= every event time, every F[k] is >= 0,
\* no F[k] ever decreases, and a step that changes F[k] is the processing of
\* an event i with mark c[i] = k.
C6_CompensatorMonotone ==
    /\ [](fn = "ll" /\ T >= LastTime => \A k \in DOMAIN F : F[k] >= 0)
    /\ [][(fn = "ll" /\ T >= LastTime) =>
            \A k \in DOMAIN F :
               /\ F'[k] >= F[k]
               /\ F'[k] # F[k] => (pc \in {"first", "loop"} /\ i < N /\ c[i] = k)]_vars

\* two processes have accumulated a positive compensator
C6_Witness ==
    /\ Done("ll") /\ T >= LastTime /\ K = 2
    /\ \A k \in DOMAIN F : F[k] > 0

\* the influence row of the parent at position j of the current generation
Row(j) == [k \in 0..(Kmu - 1) |-> A[<<curr_C[j], k>>]]

\* C7: a call of _get_mv_offspring whose influence row is all zero returns
\* no children, whatever the parent time, theta and T.
C7_ZeroRowNoChildren ==
    [][(fn = "sample" /\ pc = "for" /\ i' = i + 1
          /\ \A k \in 0..(Kmu - 1) : Row(i + 1)[k] = 0)
       => (os_P'[i + 1] = <<>> /\ os_C'[i + 1] = <<>>)]_vars

\* a parent with an all-zero row has been sampled, under a matrix A with
\* another row that is not zero
C7_Witness ==
    /\ fn = "sample" /\ pc = "for" /\ i >= 1
    /\ \E j \in 1..i : (\A k \in 0..(Kmu - 1) : Row(j)[k] = 0) /\ os_P[j] = <<>>
    /\ \E p \in DOMAIN A : A[p] > 0

\* C8: at the loop test mv_exp_sample_branching goes on exactly when the
\* current generation is non-empty and returns when it is empty; it has
\* called _get_mv_offspring once per event of every non-empty generation, so
\* not at all when there is no immigrant, and the generation drawn last is
\* empty when it returns; once a generation is empty the call returns.
C8_StopsAtEmptyGeneration ==
    /\ [][(fn = "sample" /\ pc = "while") =>
            /\ (curr_P = <<>> => pc' = "done")
            /\ (curr_P # <<>> => pc' = "for")]_vars
    /\ [](Done("sample") =>
            /\ result.kind = "value"
            /\ gens[Len(gens)] = <<>>
            /\ \A g \in 1..(Len(gens) - 1) : gens[g] # <<>>
            /\ calls = Len(Flatten(gens))
            /\ (gens[1] = <<>> => (calls = 0 /\ result.P = <<>> /\ result.C = <<>>)))
    /\ ((fn = "sample" /\ pc = "while" /\ curr_P = <<>>) ~> Done("sample"))

\* a run that returned after two non-empty generations
C8_Witness ==
    /\ Done("sample") /\ Len(gens) = 3 /\ calls >= 2

\* number of entries of the sequence a equal to e
Count(a, e) == Cardinality({j \in 1..Len(a) : a[j] = e})

\* the returned realization as (time, mark) pairs
Pairs(r) == [j \in 1..Len(r.P) |-> <<r.P[j], r.C[j]>>]

\* C10: the realization returned is the union of all generations: every
\* immigrant and every returned child occurs in it as often as it was drawn,
\* with the mark it was drawn with, and it holds nothing else.
C10_OutputIsUnionOfGenerations ==
    Returned("sample") =>
        /\ Len(result.P) = Len(Flatten(gens))
        /\ Len(result.C) = Len(result.P)
        /\ \A e \in (0..(T - 1)) \X (0..(Kmu - 1)) :
              Count(Pairs(result), e) = Count(Flatten(gens), e)
        /\ \A j \in 1..Len(result.P) : Count(Flatten(gens), Pairs(result)[j]) > 0

\* events of differing marks, drawn out of time order
C10_Witness ==
    /\ Returned("sample") /\ Len(result.P) >= 2 /\ result.P # P
    /\ \E j \in 1..(Len(result.C) - 1) : result.C[j] # result.C[j + 1]

\* C9: the per-process arrays of mv_exp_ll have one slot for every mark in
\* [0, len(mu)), and no mark of the input is stored outside them.
C9_StateSizedByMu ==
    (fn = "ll" /\ pc # "entry") =>
        /\ K = Kmu
        /\ DOMAIN phi = 0..(Kmu - 1) /\ DOMAIN d = 0..(Kmu - 1)
        /\ DOMAIN ed = 0..(Kmu - 1) /\ DOMAIN F = 0..(Kmu - 1)
        /\ ~oob
====
